---- MODULE Spec2Model ----
(***************************************************************************)
(* The websocket connection registry and session loops of                  *)
(* src/app/routers/websockets.py: two populations ("user", "client"), one  *)
(* Connections registry each, one asyncio task per accepted websocket.     *)
(* A step of the model is what one task runs between two suspension points *)
(* (await websocket.accept / receive_text / send_text).                    *)
(***************************************************************************)
EXTENDS Integers, Sequences, FiniteSets, TLC

\* ---------------------------------------------------------------- bounds
MaxHandles == 2        \* websockets accepted over the life of the process
MaxFrames  == 2        \* text frames received over the life of the process
NumIds     == 2        \* distinct identity values (UUIDs) peers may present

Handles == 1..MaxHandles
Ids     == 1..NumIds
NoHandle == 0
NoId     == 0

\* ---------------------------------------------------------------- messages
NoMsg == [action |-> "none", active_users |-> 0]
\* WebsocketMessage(action="error", data=AppError(error=str(e)))
ErrorMessage == [action |-> "error", active_users |-> 0]
\* WebsocketMessage(action="server_stats", data=AppStats(active_users=n))
StatsMessage(n) == [action |-> "server_stats", active_users |-> n]

\* Raw text frames a peer may send, by what model_validate_json looks at:
\* whether the text is JSON, the "action" member, the shape of "data".
Frames ==
    { [json |-> FALSE, action |-> "missing",        data |-> "null"],
      [json |-> TRUE,  action |-> "missing",        data |-> "null"],
      [json |-> TRUE,  action |-> "server_stats",   data |-> "null"],
      [json |-> TRUE,  action |-> "server_stats",   data |-> "malformed"],
      [json |-> TRUE,  action |-> "unknown_action", data |-> "null"] }

\* WebsocketMessage.model_validate_json: action is a required str, data is
\* Token | AppError | AppStats | None.
model_validate_json(f) ==
    /\ f.json
    /\ f.action # "missing"
    /\ f.data \in {"null", "token", "error", "stats"}

\* ---------------------------------------------------------------- state
VARIABLES
    pc,                  \* per handle: where its endpoint task is
    pop,                 \* per handle: "user" | "client" | "none"
    ident,               \* per handle: the user_id / client_id of the endpoint
    transport,           \* per handle: "none" | "open" | "closed" (peer side)
    user_connections,    \* registry: identity -> handle
    client_connections,  \* registry: identity -> handle
    message,             \* per handle: the loop's local `message`: "unset",
                         \* "None" (invalid frame) or the frame's action
    msg,                 \* per handle: message its task is sending
    target,              \* per handle: handle looked up by connections.send
    pending,             \* per handle: broadcast recipients not yet written
    outbound,            \* per handle: the last message written to it
    frames,              \* per handle: number of frames its receive_text returned
    last_op,             \* per population and identity: the last registry
                         \* operation issued for it: "none", "connect", "disconnect"
    blocked              \* handles whose peer has stopped reading for good: a
                         \* send_text to them never returns

vars == <<pc, pop, ident, transport, user_connections, client_connections,
          message, msg, target, pending, outbound, frames, last_op, blocked>>

\* ---------------------------------------------------------------- Connections
\* The registry class (app.websockets.Connections): identity -> handle.
EmptyConnections == [i \in {} |-> NoHandle]

\* connect(websocket, id): insert or replace the mapping of id.
connect(reg, h, id) ==
    [i \in (DOMAIN reg) \cup {id} |-> IF i = id THEN h ELSE reg[i]]

\* disconnect(id): remove the mapping of id if there is one.
disconnect(reg, id) == [i \in (DOMAIN reg) \ {id} |-> reg[i]]

\* get_number_of_connections()
get_number_of_connections(reg) == Cardinality(DOMAIN reg)

\* The handles broadcast writes to: the registered handles at the call.
members(reg) == {reg[i] : i \in DOMAIN reg}

\* The handle send(id, m) writes to; NoHandle when id has no mapping.
lookup(reg, id) == IF id \in DOMAIN reg THEN reg[id] ELSE NoHandle

\* What a send_text on handle h can do: it returns, or, once the peer side
\* of h is gone, it may raise WebSocketDisconnect (TRUE).
WriteOutcomes(h) == IF transport[h] = "closed" THEN {FALSE, TRUE} ELSE {FALSE}

Write(h, m) == [outbound EXCEPT ![h] = m]

\* Frames received so far on the handles of S.
RECURSIVE FramesRead(_)
FramesRead(S) ==
    IF S = {} THEN 0
    ELSE LET h == CHOOSE x \in S : TRUE IN frames[h] + FramesRead(S \ {h})

\* The registry of a population.
\* Both endpoints handed the client registry (the user endpoint calling
\* validate_message and send_server_stats with client_connections).
Conn_shared(p) == client_connections

Conn(p) == IF p = "user" THEN user_connections ELSE client_connections

\* ---------------------------------------------------------------- session state
\* The session state (CONNECTING, ACTIVE, CLOSED) of a task at position c;
\* NONE before the websocket exists.
StateAt(c) ==
    CASE c = "none" -> "NONE"
      [] c = "accepted" -> "CONNECTING"
      [] c \in {"verify", "bcast_connect", "recv", "send"} -> "ACTIVE"
      [] OTHER -> "CLOSED"

SessionState(h) == StateAt(pc[h])

\* ---------------------------------------------------------------- Init
Init ==
    /\ pc = [h \in Handles |-> "none"]
    /\ pop = [h \in Handles |-> "none"]
    /\ ident = [h \in Handles |-> NoId]
    /\ transport = [h \in Handles |-> "none"]
    /\ user_connections = EmptyConnections
    /\ client_connections = EmptyConnections
    /\ message = [h \in Handles |-> "unset"]
    /\ msg = [h \in Handles |-> NoMsg]
    /\ target = [h \in Handles |-> NoHandle]
    /\ pending = [h \in Handles |-> {}]
    /\ outbound = [h \in Handles |-> NoMsg]
    /\ frames = [h \in Handles |-> 0]
    /\ last_op = [k \in {"user", "client"} \X Ids |-> "none"]
    /\ blocked = {}

\* ---------------------------------------------------------------- environment
\* A peer opens /ws/user?user_id=i or /ws/client?client_id=i and the endpoint
\* accepts it: await websocket.accept().
Accept(h, p, i) ==
    /\ pc[h] = "none"
    /\ \A g \in Handles : g < h => pc[g] # "none"
    \* identities are opaque: the first one seen is called 1, the next new one 2
    /\ \A j \in Ids : j < i => \E g \in Handles : ident[g] = j
    /\ pc' = [pc EXCEPT ![h] = "accepted"]
    /\ pop' = [pop EXCEPT ![h] = p]
    /\ ident' = [ident EXCEPT ![h] = i]
    /\ transport' = [transport EXCEPT ![h] = "open"]
    /\ UNCHANGED <<user_connections, client_connections, message, msg,
                   target, pending, outbound, frames, last_op, blocked>>

\* The peer closes, or the network fails: the next receive_text of the
\* handle's task raises WebSocketDisconnect.  Once the endpoint has left its
\* loop the websocket is the server's to close.
PeerClose(h) ==
    /\ transport[h] = "open"
    /\ h \notin blocked
    /\ pc[h] \notin {"done", "bcast_disconnect"}
    /\ transport' = [transport EXCEPT ![h] = "closed"]
    /\ UNCHANGED <<pc, pop, ident, user_connections, client_connections,
                   message, msg, target, pending, outbound, frames, last_op,
                   blocked>>

\* The peer of h stops reading and never closes: from now on a write to h
\* does not return.
Block(h) ==
    /\ transport[h] = "open"
    /\ pc[h] \notin {"none", "done", "bcast_disconnect"}
    /\ h \notin blocked
    /\ blocked' = blocked \cup {h}
    /\ UNCHANGED <<pc, pop, ident, transport, user_connections,
                   client_connections, message, msg, target, pending, outbound,
                   frames, last_op>>

\* ---------------------------------------------------------------- handlers
\* on_user_connect announcing the new count as on_client_connect does.
on_user_connect_broadcast(h) ==
    LET reg == connect(user_connections, h, ident[h])
    IN  /\ user_connections' = reg
        /\ msg' = [msg EXCEPT ![h] =
                     StatsMessage(get_number_of_connections(reg))]
        /\ pending' = [pending EXCEPT ![h] = members(reg)]
        /\ pc' = [pc EXCEPT ![h] = "bcast_connect"]
        /\ UNCHANGED <<client_connections, target>>

\* on_user_connect rejecting an identity that is already registered: the
\* earlier mapping is kept.
on_user_connect_keepfirst(h) ==
    /\ user_connections' =
           IF ident[h] \in DOMAIN user_connections THEN user_connections
           ELSE connect(user_connections, h, ident[h])
    /\ pc' = [pc EXCEPT ![h] = "verify"]
    /\ UNCHANGED <<client_connections, msg, target, pending>>

\* on_user_connect up to its await: the registration.
on_user_connect(h) ==
    /\ user_connections' = connect(user_connections, h, ident[h])
    /\ pc' = [pc EXCEPT ![h] = "verify"]
    /\ UNCHANGED <<client_connections, msg, target, pending>>

\* verify_websocket_token: the try body is a placeholder that raises nothing,
\* so the websocket is never closed here.
verify_websocket_token(h) ==
    /\ pc[h] = "verify"
    /\ pc' = [pc EXCEPT ![h] = "recv"]
    /\ UNCHANGED <<pop, ident, transport, user_connections, client_connections,
                   message, msg, target, pending, outbound, frames, last_op,
                   blocked>>

\* on_client_connect with the stats computed before the registration.
on_client_connect_stale(h) ==
    LET reg == connect(client_connections, h, ident[h])
        stats == get_number_of_connections(client_connections)
    IN  /\ client_connections' = reg
        /\ msg' = [msg EXCEPT ![h] = StatsMessage(stats)]
        /\ pending' = [pending EXCEPT ![h] = members(reg)]
        /\ pc' = [pc EXCEPT ![h] = "bcast_connect"]
        /\ UNCHANGED <<user_connections, target>>

\* on_client_connect announcing the count to the other clients only.
on_client_connect_others(h) ==
    LET reg == connect(client_connections, h, ident[h])
        stats == get_number_of_connections(reg)
    IN  /\ client_connections' = reg
        /\ msg' = [msg EXCEPT ![h] = StatsMessage(stats)]
        /\ pending' = [pending EXCEPT ![h] = members(reg) \ {h}]
        /\ pc' = [pc EXCEPT ![h] =
                     IF members(reg) = {h} THEN "recv" ELSE "bcast_connect"]
        /\ UNCHANGED <<user_connections, target>>

\* on_client_connect over a broadcast that iterates the registry itself and
\* not a copy of it: the new handle turns up in every fan-out in progress.
on_client_connect_live(h) ==
    LET reg == connect(client_connections, h, ident[h])
        stats == get_number_of_connections(reg)
    IN  /\ client_connections' = reg
        /\ msg' = [msg EXCEPT ![h] = StatsMessage(stats)]
        /\ pending' = [g \in Handles |->
                         IF g = h THEN members(reg)
                         ELSE IF pending[g] # {} THEN pending[g] \cup {h}
                         ELSE {}]
        /\ pc' = [pc EXCEPT ![h] = "bcast_connect"]
        /\ UNCHANGED <<user_connections, target>>

\* on_client_connect up to the first write of its broadcast.
on_client_connect(h) ==
    LET reg == connect(client_connections, h, ident[h])
        stats == get_number_of_connections(reg)
    IN  /\ client_connections' = reg
        /\ msg' = [msg EXCEPT ![h] = StatsMessage(stats)]
        /\ pending' = [pending EXCEPT ![h] = members(reg)]
        /\ pc' = [pc EXCEPT ![h] = "bcast_connect"]
        /\ UNCHANGED <<user_connections, target>>

\* on_user_disconnect that forgets the registry.
on_user_disconnect_keep(h) ==
    /\ pc' = [pc EXCEPT ![h] = "done"]
    /\ msg' = [msg EXCEPT ![h] = NoMsg]
    /\ target' = [target EXCEPT ![h] = NoHandle]
    /\ UNCHANGED <<user_connections, client_connections, pending>>

\* on_user_disconnect over a registry whose removal raises KeyError for an
\* identity that is not registered: the handler does not complete.
on_user_disconnect_strict(h) ==
    /\ user_connections' = disconnect(user_connections, ident[h])
    /\ pc' = [pc EXCEPT ![h] =
                 IF ident[h] \in DOMAIN user_connections THEN "done"
                 ELSE "raised"]
    /\ msg' = [msg EXCEPT ![h] = NoMsg]
    /\ target' = [target EXCEPT ![h] = NoHandle]
    /\ UNCHANGED <<client_connections, pending>>

\* on_user_disconnect
on_user_disconnect(h) ==
    /\ user_connections' = disconnect(user_connections, ident[h])
    /\ pc' = [pc EXCEPT ![h] = "done"]
    /\ msg' = [msg EXCEPT ![h] = NoMsg]
    /\ target' = [target EXCEPT ![h] = NoHandle]
    /\ UNCHANGED <<client_connections, pending>>

\* on_client_disconnect with the broadcast prepared before the removal.
on_client_disconnect_early(h) ==
    LET reg == disconnect(client_connections, ident[h])
        stats == get_number_of_connections(client_connections)
    IN  /\ client_connections' = reg
        /\ pending' = [pending EXCEPT ![h] = members(client_connections)]
        /\ msg' = [msg EXCEPT ![h] =
                     IF members(client_connections) = {} THEN NoMsg
                     ELSE StatsMessage(stats)]
        /\ pc' = [pc EXCEPT ![h] =
                     IF members(client_connections) = {} THEN "done"
                     ELSE "bcast_disconnect"]
        /\ target' = [target EXCEPT ![h] = NoHandle]
        /\ UNCHANGED user_connections

\* on_client_disconnect that broadcasts the count without removing the
\* identity first.
on_client_disconnect_skip(h) ==
    LET reg == client_connections
        stats == get_number_of_connections(reg)
    IN  /\ client_connections' = reg
        /\ pending' = [pending EXCEPT ![h] = members(reg)]
        /\ msg' = [msg EXCEPT ![h] =
                     IF members(reg) = {} THEN NoMsg ELSE StatsMessage(stats)]
        /\ pc' = [pc EXCEPT ![h] =
                     IF members(reg) = {} THEN "done" ELSE "bcast_disconnect"]
        /\ target' = [target EXCEPT ![h] = NoHandle]
        /\ UNCHANGED user_connections

\* on_client_disconnect up to the first write of its broadcast.
on_client_disconnect(h) ==
    LET reg == disconnect(client_connections, ident[h])
        stats == get_number_of_connections(reg)
    IN  /\ client_connections' = reg
        /\ pending' = [pending EXCEPT ![h] = members(reg)]
        /\ msg' = [msg EXCEPT ![h] =
                     IF members(reg) = {} THEN NoMsg ELSE StatsMessage(stats)]
        /\ pc' = [pc EXCEPT ![h] =
                     IF members(reg) = {} THEN "done" ELSE "bcast_disconnect"]
        /\ target' = [target EXCEPT ![h] = NoHandle]
        /\ UNCHANGED user_connections

\* except WebSocketDisconnect: of user_endpoint and of client_endpoint.
except_WebSocketDisconnect(h) ==
    /\ IF pop[h] = "user" THEN on_user_disconnect(h) ELSE on_client_disconnect(h)
    /\ last_op' = [last_op EXCEPT ![<<pop[h], ident[h]>>] = "disconnect"]

\* An endpoint that runs on_*_connect again after its loop has ended.
Register_again(h) ==
    /\ pc[h] \in {"accepted", "done"}
    /\ IF pop[h] = "user" THEN on_user_connect(h) ELSE on_client_connect(h)
    /\ last_op' = [last_op EXCEPT ![<<pop[h], ident[h]>>] = "connect"]
    /\ UNCHANGED <<pop, ident, transport, message, outbound, frames, blocked>>

\* user_endpoint / client_endpoint after accept: on_*_connect.
Register(h) ==
    /\ pc[h] = "accepted"
    /\ IF pop[h] = "user" THEN on_user_connect(h) ELSE on_client_connect(h)
    /\ last_op' = [last_op EXCEPT ![<<pop[h], ident[h]>>] = "connect"]
    /\ UNCHANGED <<pop, ident, transport, message, outbound, frames, blocked>>

\* Connections.broadcast letting the WebSocketDisconnect of a write reach
\* its caller: the fan-out is abandoned and the endpoint's except runs.
broadcast_write_raising(h, r) ==
    /\ pc[h] \in {"bcast_connect", "bcast_disconnect"}
    /\ r \in pending[h]
    /\ r \notin blocked
    /\ \E raised \in WriteOutcomes(r) :
         /\ outbound' = Write(r, msg[h])
         /\ IF raised
              THEN /\ pending' = [pending EXCEPT ![h] = {}]
                   /\ pc' = [pc EXCEPT ![h] = "done"]
                   /\ msg' = [msg EXCEPT ![h] = NoMsg]
              ELSE /\ pending' = [pending EXCEPT ![h] = @ \ {r}]
                   /\ IF pending[h] = {r}
                        THEN /\ pc' = [pc EXCEPT ![h] =
                                        IF pc[h] = "bcast_connect" THEN "recv"
                                        ELSE "done"]
                             /\ msg' = [msg EXCEPT ![h] = NoMsg]
                        ELSE UNCHANGED <<pc, msg>>
    /\ UNCHANGED <<pop, ident, transport, user_connections, client_connections,
                   message, target, frames, last_op, blocked>>

\* Connections.broadcast: one write of the fan-out.  A WebSocketDisconnect
\* of the write is kept from the caller, so both outcomes continue alike.
broadcast_write(h, r) ==
    /\ pc[h] \in {"bcast_connect", "bcast_disconnect"}
    /\ r \in pending[h]
    /\ r \notin blocked
    /\ \E raised \in WriteOutcomes(r) :
         /\ outbound' = Write(r, msg[h])
         /\ pending' = [pending EXCEPT ![h] = @ \ {r}]
         /\ IF pending[h] = {r}
              THEN /\ pc' = [pc EXCEPT ![h] =
                              IF pc[h] = "bcast_connect" THEN "recv" ELSE "done"]
                   /\ msg' = [msg EXCEPT ![h] = NoMsg]
              ELSE UNCHANGED <<pc, msg>>
    /\ UNCHANGED <<pop, ident, transport, user_connections, client_connections,
                   message, target, frames, last_op, blocked>>

\* What validate_message returns for frame f: "None", or the message, of
\* which the loop reads the action alone.
validate_message(f) == IF model_validate_json(f) THEN f.action ELSE "None"

\* The loop body without the test of the action: every valid frame is
\* answered with the stats.
reply_any(f, reg) ==
    IF validate_message(f) = "None" THEN ErrorMessage
    ELSE StatsMessage(get_number_of_connections(reg))

\* The message the loop body answers frame f with, NoMsg for none:
\* validate_message's except branch, then the dispatch on message.action.
reply(f, reg) ==
    IF validate_message(f) = "None" THEN ErrorMessage
    ELSE IF validate_message(f) = "server_stats"
         THEN StatsMessage(get_number_of_connections(reg))
         ELSE NoMsg

\* The loop body over a registry whose send raises KeyError for an identity
\* that has no mapping: the error leaves the loop and the task ends.
receive_text_strict(h, f) ==
    /\ pc[h] = "recv"
    /\ transport[h] = "open"
    /\ FramesRead(Handles) < MaxFrames
    /\ frames' = [frames EXCEPT ![h] = @ + 1]
    /\ message' = [message EXCEPT ![h] = validate_message(f)]
    /\ LET m == reply(f, Conn(pop[h]))
           to == IF m = NoMsg THEN NoHandle ELSE lookup(Conn(pop[h]), ident[h])
       IN  IF m = NoMsg
             THEN UNCHANGED <<pc, msg, target>>
             ELSE IF to = NoHandle
                    THEN /\ pc' = [pc EXCEPT ![h] = "raised"]
                         /\ UNCHANGED <<msg, target>>
                    ELSE /\ pc' = [pc EXCEPT ![h] = "send"]
                         /\ msg' = [msg EXCEPT ![h] = m]
                         /\ target' = [target EXCEPT ![h] = to]
    /\ UNCHANGED <<pop, ident, transport, user_connections, client_connections,
                   pending, outbound, last_op, blocked>>

\* validate_message's receive_text returns frame f; the loop body runs up to
\* the await of the write inside connections.send.
receive_text(h, f) ==
    /\ pc[h] = "recv"
    /\ transport[h] = "open"
    /\ FramesRead(Handles) < MaxFrames
    /\ frames' = [frames EXCEPT ![h] = @ + 1]
    /\ message' = [message EXCEPT ![h] = validate_message(f)]
    /\ LET m == reply(f, Conn(pop[h]))
           to == IF m = NoMsg THEN NoHandle ELSE lookup(Conn(pop[h]), ident[h])
       IN  IF to = NoHandle
             THEN UNCHANGED <<pc, msg, target>>
             ELSE /\ pc' = [pc EXCEPT ![h] = "send"]
                  /\ msg' = [msg EXCEPT ![h] = m]
                  /\ target' = [target EXCEPT ![h] = to]
    /\ UNCHANGED <<pop, ident, transport, user_connections, client_connections,
                   pending, outbound, last_op, blocked>>

\* The write of connections.send completes, or raises into the loop.
send_write(h, raised) ==
    /\ pc[h] = "send"
    /\ target[h] \notin blocked
    /\ raised \in WriteOutcomes(target[h])
    /\ outbound' = Write(target[h], msg[h])
    /\ IF raised
         THEN /\ except_WebSocketDisconnect(h)
              /\ transport' = [transport EXCEPT ![h] = "closed"]
              /\ message' = [message EXCEPT ![h] = "unset"]
         ELSE /\ pc' = [pc EXCEPT ![h] = "recv"]
              /\ msg' = [msg EXCEPT ![h] = NoMsg]
              /\ target' = [target EXCEPT ![h] = NoHandle]
              /\ UNCHANGED <<user_connections, client_connections, pending,
                             transport, message, last_op>>
    /\ UNCHANGED <<pop, ident, frames, blocked>>

\* receive_text raises WebSocketDisconnect.
receive_disconnect(h) ==
    /\ pc[h] = "recv"
    /\ transport[h] = "closed"
    /\ except_WebSocketDisconnect(h)
    /\ message' = [message EXCEPT ![h] = "unset"]
    /\ UNCHANGED <<pop, ident, transport, outbound, frames, blocked>>

\* ---------------------------------------------------------------- Next
Next ==
    \/ \E h \in Handles, p \in {"user", "client"}, i \in Ids : Accept(h, p, i)
    \/ \E h \in Handles : PeerClose(h)
    \/ \E h \in Handles : Register(h)
    \/ \E h \in Handles : verify_websocket_token(h)
    \/ \E h \in Handles, r \in Handles : broadcast_write(h, r)
    \/ \E h \in Handles, f \in Frames : receive_text(h, f)
    \/ \E h \in Handles, raised \in BOOLEAN : send_write(h, raised)
    \/ \E h \in Handles : receive_disconnect(h)

Spec == Init /\ [][Next]_vars

\* The steps of the task of handle h that the event loop runs as soon as
\* they can run; accepting, receiving a frame and closing are the peer's.
TaskStep(h) ==
    \/ Register(h)
    \/ verify_websocket_token(h)
    \/ \E r \in Handles : broadcast_write(h, r)
    \/ \E raised \in BOOLEAN : send_write(h, raised)
    \/ receive_disconnect(h)

\* The program with peers that may stop reading, under the event loop's fair
\* scheduling of the tasks.
NextStall ==
    \/ Next
    \/ \E h \in Handles : Block(h)

StallSpec ==
    /\ Init
    /\ [][NextStall]_vars
    /\ \A h \in Handles : WF_vars(TaskStep(h))

TypeOK ==
    /\ pc \in [Handles -> {"none", "accepted", "verify", "bcast_connect",
                           "recv", "send", "bcast_disconnect", "done"}]
    /\ pop \in [Handles -> {"none", "user", "client"}]
    /\ ident \in [Handles -> Ids \cup {NoId}]
    /\ transport \in [Handles -> {"none", "open", "closed"}]
    /\ DOMAIN user_connections \subseteq Ids
    /\ DOMAIN client_connections \subseteq Ids
    /\ \A h \in Handles : pending[h] \subseteq Handles
    /\ target \in [Handles -> Handles \cup {NoHandle}]
    /\ frames \in [Handles -> 0..MaxFrames]
    /\ last_op \in [{"user", "client"} \X Ids -> {"none", "connect", "disconnect"}]
    /\ blocked \subseteq Handles
    /\ message \in [Handles -> {"unset", "None", "server_stats", "unknown_action"}]

\* ---------------------------------------------------------------- properties
\* Steps of the task of handle h, read off two successive states.
Registers(h) == pc[h] = "accepted" /\ pc'[h] # "accepted"
Closes(h) == StateAt(pc[h]) = "ACTIVE" /\ StateAt(pc'[h]) = "CLOSED"
ReadRaises(h) == pc[h] = "recv" /\ transport[h] = "closed" /\ pc'[h] # "recv"
Receives(h) == frames'[h] = frames[h] + 1
FanOutStep(h) == pending'[h] # pending[h] /\ pending[h] # {}

\* One write of the fan-out of h: the pending message goes to one pending
\* handle and to nothing else, and the fan-out ends only when none is left.
FanOutWrites(h) ==
    \E r \in pending[h] :
        /\ pending'[h] = pending[h] \ {r}
        /\ outbound'[r] = msg[h]
        /\ \A g \in Handles \ {r} : outbound'[g] = outbound[g]
        /\ (pending'[h] # {}) => (pc'[h] = pc[h] /\ msg'[h] = msg[h])
        /\ (pending'[h] = {}) => pc'[h] # pc[h]

\* C1: when a client session registers, a server_stats message carrying the
\* client registry's size right after the registration is set to go to every
\* handle then registered, the new one included, and each write of that
\* fan-out delivers exactly this message to one of them until none is left.
C1_ConnectBroadcast ==
    [][\A h \in Handles :
         /\ (pop[h] = "client" /\ Registers(h)) =>
              /\ pc'[h] = "bcast_connect"
              /\ msg'[h] = StatsMessage(Cardinality(DOMAIN client_connections'))
              /\ pending'[h] = {client_connections'[i] :
                                  i \in DOMAIN client_connections'}
              /\ h \in pending'[h]
              /\ outbound' = outbound
         /\ (pc[h] = "bcast_connect" /\ (FanOutStep(h) \/ pc'[h] # pc[h])) =>
              FanOutWrites(h)
      ]_vars

\* C1 witness: clients A then B connected and both were written active_users 2.
C1_Witness ==
    /\ pop[1] = "client" /\ pop[2] = "client" /\ ident[1] # ident[2]
    /\ outbound[1] = StatsMessage(2)
    /\ outbound[2] = StatsMessage(2)
    /\ pc[2] = "recv"

\* C2: when a client session closes, its identity is removed first, the
\* server_stats message carries the size after the removal and is set to go
\* to the handles still registered, never to the closing handle; each write
\* of that fan-out delivers this message to one of them until none is left.
C2_DisconnectBroadcast ==
    [][\A h \in Handles :
         /\ (pop[h] = "client" /\ Closes(h)) =>
              /\ ident[h] \notin DOMAIN client_connections'
              /\ \A i \in Ids \ {ident[h]} :
                   /\ (i \in DOMAIN client_connections') =
                        (i \in DOMAIN client_connections)
                   /\ i \in DOMAIN client_connections =>
                        client_connections'[i] = client_connections[i]
              /\ pending'[h] = {client_connections'[i] :
                                  i \in DOMAIN client_connections'}
              /\ h \notin pending'[h]
              /\ pending'[h] # {} =>
                   /\ pc'[h] = "bcast_disconnect"
                   /\ msg'[h] =
                        StatsMessage(Cardinality(DOMAIN client_connections'))
              /\ \A g \in Handles : g # target[h] => outbound'[g] = outbound[g]
         /\ (pc[h] = "bcast_disconnect" /\ (FanOutStep(h) \/ pc'[h] # pc[h])) =>
              /\ FanOutWrites(h)
              /\ outbound'[h] = outbound[h]
      ]_vars

\* C2 witness: clients A and B were connected, A's transport closed and its
\* session ended, and B, still registered, was written active_users 1.
C2_Witness ==
    /\ pop[1] = "client" /\ pop[2] = "client" /\ ident[1] # ident[2]
    /\ pc[1] = "done" /\ transport[1] = "closed"
    /\ DOMAIN client_connections = {ident[2]}
    /\ outbound[2] = StatsMessage(1)

\* C3 (as claimed): a valid server_stats frame received on a session of
\* identity U always produces one server_stats reply, carrying the size of
\* U's own population's registry, addressed to a handle of identity U in
\* that population.
C3_StatsReplyAlways ==
    [][\A h \in Handles :
         (Receives(h) /\ message'[h] = "server_stats") =>
              /\ pc'[h] = "send"
              /\ msg'[h] = StatsMessage(Cardinality(DOMAIN Conn(pop[h])))
              /\ target'[h] \in Handles
              /\ ident[target'[h]] = ident[h]
              /\ pop[target'[h]] = pop[h]
      ]_vars

\* C4 (as claimed): an invalid frame received by an ACTIVE session always
\* produces one error envelope and changes neither the registries nor the
\* session state: while the session's own transport is up, it is reading
\* again after the reply.
C4_InvalidFrameRecovered ==
    [][\A h \in Handles :
         /\ (Receives(h) /\ message'[h] = "None") =>
              /\ pc'[h] = "send"
              /\ msg'[h] = ErrorMessage
              /\ UNCHANGED <<user_connections, client_connections>>
         /\ (pc[h] = "send" /\ msg[h] = ErrorMessage /\ pc'[h] # "send"
               /\ transport[h] = "open") =>
              /\ pc'[h] = "recv"
              /\ UNCHANGED <<user_connections, client_connections>>
      ]_vars

\* C5 (as claimed): the error envelope for an invalid frame is addressed to
\* the handle the frame arrived on.
C5_ErrorToSameHandle ==
    [][\A h \in Handles :
         (Receives(h) /\ message'[h] = "None" /\ pc'[h] = "send") =>
              target'[h] = h
      ]_vars

\* C6: a frame that validates and whose action is not server_stats causes no
\* write and schedules none, changes no registry, and leaves the session
\* ACTIVE at its next receive.
C6_UnknownActionIgnored ==
    [][\A h \in Handles :
         (Receives(h) /\ message'[h] = "unknown_action") =>
              /\ outbound' = outbound
              /\ UNCHANGED <<user_connections, client_connections>>
              /\ pc' = pc /\ pc[h] = "recv"
              /\ UNCHANGED <<msg, target, pending>>
      ]_vars

\* C6 witness: an ACTIVE user session has read an unknown_action frame, is
\* reading again and nothing was ever written to it.
C6_Witness ==
    /\ pop[1] = "user" /\ pc[1] = "recv" /\ frames[1] = 1
    /\ message[1] = "unknown_action"
    /\ outbound[1] = NoMsg
    /\ user_connections = [i \in {ident[1]} |-> 1]

\* C7 (as claimed): a session leaves ACTIVE only when the read on its own
\* transport raised the disconnect.
C7_OnlyReadCloses ==
    [][\A h \in Handles :
         Closes(h) => (pc[h] = "recv" /\ transport[h] = "closed")
      ]_vars

\* C8: when the read of a session raises the disconnect the session is
\* CLOSED and its identity is out of its population's registry in the same
\* step; and no registry maps anything to the handle of a CLOSED session.
C8_ClosedIsDeregistered ==
    [][\A h \in Handles :
         /\ ReadRaises(h) =>
              /\ StateAt(pc'[h]) = "CLOSED"
              /\ pop[h] = "user" => ident[h] \notin DOMAIN user_connections'
              /\ pop[h] = "client" =>
                   ident[h] \notin DOMAIN client_connections'
         /\ StateAt(pc'[h]) = "CLOSED" =>
              /\ \A i \in DOMAIN user_connections' : user_connections'[i] # h
              /\ \A i \in DOMAIN client_connections' :
                   client_connections'[i] # h
      ]_vars

\* C8 witness: a user session was registered, its transport closed, and its
\* loop has ended with the registry empty again.
C8_Witness ==
    /\ pop[1] = "user" /\ pc[1] = "done" /\ transport[1] = "closed"
    /\ DOMAIN user_connections = {}
    /\ pc[2] = "none"

\* C9: a session moves only NONE -> CONNECTING -> ACTIVE -> CLOSED; it is
\* registered in the one step that takes it from CONNECTING to ACTIVE and in
\* no other; it reads frames only while ACTIVE; and once CLOSED it reads no
\* frame, is not registered again and its task writes nothing to its handle.
C9_Lifecycle ==
    [][\A h \in Handles :
         /\ StateAt(pc'[h]) # StateAt(pc[h]) =>
              <<StateAt(pc[h]), StateAt(pc'[h])>> \in
                 { <<"NONE", "CONNECTING">>, <<"CONNECTING", "ACTIVE">>,
                   <<"ACTIVE", "CLOSED">> }
         /\ Registers(h) =>
              /\ StateAt(pc'[h]) = "ACTIVE"
              /\ lookup(Conn(pop[h])', ident[h]) = h
         /\ (lookup(Conn(pop[h])', ident[h]) = h
               /\ lookup(Conn(pop[h]), ident[h]) # h) => Registers(h)
         /\ Receives(h) =>
              (StateAt(pc[h]) = "ACTIVE" /\ StateAt(pc'[h]) = "ACTIVE")
         /\ StateAt(pc[h]) = "CLOSED" =>
              /\ frames'[h] = frames[h]
              /\ h \notin pending[h]
              /\ target[h] = NoHandle
              /\ FanOutStep(h) => outbound'[h] = outbound[h]
      ]_vars

\* C9 witness: a client session that read a frame is CLOSED and fanning out
\* its last stats to the other client, which is ACTIVE.
C9_Witness ==
    /\ pop[1] = "client" /\ pc[1] = "bcast_disconnect" /\ frames[1] = 1
    /\ pending[1] = {2}
    /\ pop[2] = "client" /\ pc[2] = "recv"

\* C10: a user session's connect and disconnect write nothing and start no
\* fan-out; whatever is written to a user handle is the reply (server_stats
\* or error) that a user session of the same identity is sending in answer
\* to a frame.
C10_UserNeverBroadcast ==
    [][\A h \in Handles :
         pop[h] = "user" =>
              /\ (Registers(h) \/ ReadRaises(h)) => outbound' = outbound
              /\ pc'[h] \notin {"bcast_connect", "bcast_disconnect"}
              /\ pending'[h] = {}
              /\ outbound'[h] # outbound[h] =>
                   \E g \in Handles :
                       /\ pop[g] = "user" /\ ident[g] = ident[h]
                       /\ pc[g] = "send" /\ target[g] = h
                       /\ frames[g] > 0
                       /\ outbound'[h] = msg[g]
                       /\ msg[g].action \in {"server_stats", "error"}
      ]_vars

\* C10 witness: two users; the first was answered active_users 2 and has
\* since disconnected; the second saw both membership changes and was never
\* written anything.
C10_Witness ==
    /\ pop[1] = "user" /\ pop[2] = "user" /\ ident[1] # ident[2]
    /\ pc[1] = "done" /\ outbound[1] = StatsMessage(2)
    /\ pc[2] = "recv" /\ outbound[2] = NoMsg

\* The session whose task takes the step: its position, its frame count or
\* its fan-out changes.
Acts(h) == pc'[h] # pc[h] \/ frames'[h] # frames[h] \/ pending'[h] # pending[h]

\* C11: the two populations never interact.  A step of a user session leaves
\* the client registry unchanged and writes to no client handle; a step of a
\* client session leaves the user registry unchanged and writes to no user
\* handle; and a server_stats message a session computes carries the size of
\* its own population's registry only.  This holds also when one identity is
\* registered in both populations.
C11_PopulationsIsolated ==
    [][\A h \in Handles :
         Acts(h) =>
              /\ pop'[h] = "user" =>
                   /\ client_connections' = client_connections
                   /\ \A g \in Handles :
                        pop[g] = "client" => outbound'[g] = outbound[g]
              /\ pop'[h] = "client" =>
                   /\ user_connections' = user_connections
                   /\ \A g \in Handles :
                        pop[g] = "user" => outbound'[g] = outbound[g]
              /\ (msg'[h] # msg[h] /\ msg'[h].action = "server_stats") =>
                   msg'[h].active_users =
                       IF pop[h] = "user"
                       THEN Cardinality(DOMAIN user_connections')
                       ELSE Cardinality(DOMAIN client_connections')
      ]_vars

\* C11 witness: the same identity is registered as a user on handle 1 and as
\* a client on handle 2; the client was broadcast active_users 1 and the user
\* was answered active_users 1, each counting its own population.
C11_Witness ==
    /\ pop[1] = "user" /\ pop[2] = "client" /\ ident[1] = ident[2]
    /\ lookup(user_connections, ident[1]) = 1
    /\ lookup(client_connections, ident[2]) = 2
    /\ pc[1] = "recv" /\ frames[1] = 1 /\ outbound[1] = StatsMessage(1)
    /\ pc[2] = "recv" /\ outbound[2] = StatsMessage(1)

\* The handle the registry of g's population maps g's identity to, before
\* and after the step.
Mapped(g) == lookup(Conn(pop[g]), ident[g])
MappedAfter(g) ==
    lookup(IF pop[g] = "user" THEN user_connections' ELSE client_connections',
           ident[g])

\* C12: a fault in one session is isolated from every other session.  When a
\* session h closes (its peer disconnected, or a transport error) or handles a
\* frame, invalid ones included, the mapping another ACTIVE session g relies
\* on (g's identity bound to g's own handle) is still there afterwards, also
\* when g and h present the same identity; and a session g leaves ACTIVE only
\* when its own transport is closed, never because of another one's.
C12_FaultIsolated ==
    [][\A h \in Handles : \A g \in Handles \ {h} :
         /\ ((Closes(h) \/ Receives(h)) /\ StateAt(pc[g]) = "ACTIVE"
                 /\ Mapped(g) = g)
              => MappedAfter(g) = g
         /\ Closes(g) => transport[g] = "closed"
      ]_vars

\* The registry of h's population after the step.
ConnAfter(h) == IF pop[h] = "user" THEN user_connections' ELSE client_connections'

\* C13: a registry maps an identity to at most one handle, the one of the
\* last connect.  When a session h registers, whether or not its identity is
\* already mapped (to an earlier handle h1), the registration does not fail
\* (h is ACTIVE afterwards), the identity is mapped to h and to nothing else,
\* every other identity keeps its mapping, the size is unchanged if the
\* identity was already mapped and one larger otherwise, and no transport is
\* closed by the registry.
C13_ConnectReplaces ==
    [][\A h \in Handles :
         Registers(h) =>
           LET reg == Conn(pop[h])
               after == ConnAfter(h)
               id == ident[h]
           IN  /\ StateAt(pc'[h]) = "ACTIVE"
               /\ DOMAIN after = DOMAIN reg \cup {id}
               /\ after[id] = h
               /\ \A j \in DOMAIN reg \ {id} : after[j] = reg[j]
               /\ get_number_of_connections(after) =
                      IF id \in DOMAIN reg
                      THEN get_number_of_connections(reg)
                      ELSE get_number_of_connections(reg) + 1
               /\ transport' = transport
      ]_vars

\* C13 witness: handle 1 and then handle 2 registered as users with the same
\* identity; the registry holds one mapping, to handle 2, and both sessions
\* are in their receive loops.
C13_Witness ==
    /\ pop[1] = "user" /\ pop[2] = "user" /\ ident[1] = ident[2]
    /\ pc[1] = "recv" /\ pc[2] = "recv"
    /\ DOMAIN user_connections = {ident[1]}
    /\ user_connections[ident[1]] = 2

LastConnected(p) == {i \in Ids : last_op'[<<p, i>>] = "connect"}

\* C15: whatever the interleaving of the sessions' connects and disconnects,
\* after every step the keys of each registry are exactly the identities
\* whose last operation was a connect, so its count is their number (in
\* particular once all operations have completed); and every count a session
\* reports is the number of keys its registry holds at that moment.
C15_CountIsKeys ==
    [][/\ DOMAIN user_connections' = LastConnected("user")
       /\ DOMAIN client_connections' = LastConnected("client")
       /\ get_number_of_connections(user_connections') =
              Cardinality(LastConnected("user"))
       /\ get_number_of_connections(client_connections') =
              Cardinality(LastConnected("client"))
       /\ \A h \in Handles :
            (msg'[h] # msg[h] /\ msg'[h].action = "server_stats") =>
                 msg'[h].active_users = Cardinality(DOMAIN ConnAfter(h))
      ]_vars

\* C15 witness: two clients of one identity connected one after the other
\* and the first has disconnected since: the identity's last operation is a
\* disconnect, the registry is empty although the second session is still
\* in its loop, and the last count written to it is 1.
C15_Witness ==
    /\ pop[1] = "client" /\ pop[2] = "client" /\ ident[1] = ident[2]
    /\ pc[1] = "done" /\ pc[2] = "recv"
    /\ last_op[<<"client", ident[1]>>] = "disconnect"
    /\ get_number_of_connections(client_connections) = 0
    /\ outbound[2] = StatsMessage(1)

\* C16: a broadcast of m attempts the delivery of the same, unmodified m
\* exactly once to every handle registered when it took its snapshot and to
\* no other.  The fan-out of h starts with the handles registered at that
\* instant; from then on the only steps that touch it are its own writes,
\* each of m to one handle still to be served, which is then struck off;
\* it ends when none is left.  A connect or disconnect of another session in
\* the meantime changes the registry but neither the message nor the handles
\* still to be served.
C16_BroadcastExactlyOnce ==
    [][\A h \in Handles :
         /\ (pending[h] = {} /\ pending'[h] # {}) =>
              /\ pending'[h] = members(client_connections')
              /\ msg'[h].action = "server_stats"
         /\ pending[h] # {} =>
              \/ /\ FanOutWrites(h)
                 /\ user_connections' = user_connections
                 /\ client_connections' = client_connections
              \/ /\ pending'[h] = pending[h]
                 /\ msg'[h] = msg[h]
                 /\ pc'[h] = pc[h]
      ]_vars

\* C16 witness: client 1 was registered when client 2 took the snapshot of
\* its connect broadcast and has disconnected since; the fan-out of client 2
\* goes on and still has handle 1 to serve.
C16_Witness ==
    /\ pop[1] = "client" /\ pop[2] = "client" /\ ident[1] # ident[2]
    /\ pc[1] = "done" /\ 1 \notin members(client_connections)
    /\ pc[2] = "bcast_connect" /\ pending[2] = {1}

C18_SendUnmappedNoOp ==
    [][\A h \in Handles :
         (Receives(h) /\ ident[h] \notin DOMAIN Conn(pop[h])) =>
              /\ outbound' = outbound
              /\ user_connections' = user_connections
              /\ client_connections' = client_connections
              /\ pc' = pc /\ pc[h] = "recv"
              /\ msg' = msg /\ target' = target /\ pending' = pending
      ]_vars

\* C18 witness: two user sessions of one identity; the first has closed and
\* taken the mapping with it; the second then sent {"action":"server_stats"},
\* was written nothing and is at its receive call again.
C18_Witness ==
    /\ pop[1] = "user" /\ pop[2] = "user" /\ ident[1] = ident[2]
    /\ pc[1] = "done" /\ user_connections = EmptyConnections
    /\ pc[2] = "recv" /\ frames[2] = 1 /\ message[2] = "server_stats"
    /\ outbound[1] = NoMsg /\ outbound[2] = NoMsg

\* The step applies one whole registry operation of session h to the
\* registry of its population: its connect or its disconnect.
OneOperation(h) ==
    /\ pc'[h] # pc[h]
    /\ \/ ConnAfter(h) = connect(Conn(pop[h]), h, ident[h])
       \/ ConnAfter(h) = disconnect(Conn(pop[h]), ident[h])

C20_NoStall ==
    \A h \in Handles :
        (/\ pc[h] \in {"bcast_connect", "bcast_disconnect"}
         /\ \A b \in blocked : ident[b] # ident[h])
            => pending[h] \ blocked # {}

\* C21: every session in ACTIVE has its identity in its population's
\* registry, mapped to the session's own handle, whatever the interleaving,
\* two sessions of one identity included.
C21_ActiveIsMapped ==
    \A h \in Handles :
        StateAt(pc[h]) = "ACTIVE" =>
            /\ ident[h] \in DOMAIN Conn(pop[h])
            /\ Conn(pop[h])[ident[h]] = h

\* No broadcast and no reply is in progress: every task is at its receive
\* call, has not registered yet, or has ended.
Quiescent == \A g \in Handles : pc[g] \notin {"bcast_connect", "bcast_disconnect", "send"}

\* C22: once all triggered broadcasts have finished, the last server_stats
\* value written to each client that is still registered equals the size
\* of the client registry, also when the writes of two membership-change
\* broadcasts interleaved.  Stated for clients of pairwise distinct
\* identities whose transports are all open.
C22_LastStatsIsFinalSize ==
    (/\ Quiescent
     /\ \A g \in Handles : \A k \in Handles \ {g} :
            pop[g] = "client" /\ pop[k] = "client" => ident[g] # ident[k]
     /\ \A g \in Handles : transport[g] # "closed")
        => \A h \in members(client_connections) :
               outbound[h].action = "server_stats" =>
                   outbound[h].active_users =
                       get_number_of_connections(client_connections)

\* C23: an identity is a member of the user registry only after
\* verify_websocket_token has completed for its connection: no user session
\* whose verification has not finished has its handle in the user registry.
C23_RegisteredAfterVerify ==
    \A h \in Handles :
        (pop[h] = "user" /\ h \in members(user_connections)) =>
            pc[h] \notin {"accepted", "verify"}

====
